---------------------------- MODULE Spec2Model ----------------------------
(***************************************************************************)
(* Model of src/main.py, the Sunlux invoice auditor: the audit engine      *)
(* (AuditorFatura.calcular_fator_potencia, AuditorFatura.analisar_fatura), *)
(* the "Adicionar Fatura" handler and the results pass of main().          *)
(*                                                                         *)
(* Units.  Python computes on floats; the model computes on integers:      *)
(*   energies (kWh, kVArh) and demands (kW)  whole units                   *)
(*   tariffs                                 centavos per unit             *)
(*   fator_potencia                          1/10000 (round(x, 4))         *)
(*   multa_reativo, multa_ultrapassagem      half centavos (the factors    *)
(*                                           0.5 and 1.5 are 1/2 and 3/2)  *)
(*   utilizacao_demanda                      a fraction num/den            *)
(*   kvar_necessario                         the real number               *)
(*       coef * (tan(acos(fp/10000)) - tan(acos(0.92))), kept as the pair  *)
(*       [coef, fp] and compared exactly with integers by QcLeq            *)
(* Products that do not fit TLC's 32-bit integers are computed on          *)
(* sequences of base-10000 limbs, the Big operators.                      *)
(***************************************************************************)
EXTENDS Integers, Sequences, FiniteSets

VARIABLES
    form,       \* the values of the number_input widgets (main, l.223-232)
    fp,         \* the value returned by calcular_fator_potencia (l.235), Nenhum before
    faturas,    \* st.session_state.faturas
    botao,      \* what st.button("Adicionar Fatura") returned in the last run
    erro,       \* the exception that ended the last script run, "" if none
    analises,   \* the list analises of the last results pass
    resumo,     \* the three totals of the last results pass, SemResumo if none
    pc          \* position of the script / of the function under check

vars == <<form, fp, faturas, botao, erro, analises, resumo, pc>>

---------------------------------------------------------------------------
(* Exact arithmetic on naturals of any size: little-endian base-10000      *)
(* limbs, no leading zero limb, <<>> is 0.                                 *)

LimbBase == 10 ^ 4

RECURSIVE BigOf(_)
BigOf(n) == IF n = 0 THEN <<>> ELSE <<n % LimbBase>> \o BigOf(n \div LimbBase)

BigShift(x) == IF x = <<>> THEN <<>> ELSE <<0>> \o x

RECURSIVE BigAddC(_, _, _)
BigAddC(x, y, c) ==
    IF x = <<>> /\ y = <<>> THEN (IF c = 0 THEN <<>> ELSE <<c>>)
    ELSE LET a == IF x = <<>> THEN 0 ELSE Head(x)
             b == IF y = <<>> THEN 0 ELSE Head(y)
             s == a + b + c
         IN  <<s % LimbBase>> \o BigAddC(IF x = <<>> THEN <<>> ELSE Tail(x),
                                         IF y = <<>> THEN <<>> ELSE Tail(y),
                                         s \div LimbBase)

BigAdd(x, y) == BigAddC(x, y, 0)

RECURSIVE BigNorm(_)
BigNorm(x) ==
    IF x = <<>> THEN <<>>
    ELSE IF x[Len(x)] = 0 THEN BigNorm(SubSeq(x, 1, Len(x) - 1)) ELSE x

RECURSIVE BigSubB(_, _, _)
BigSubB(x, y, b) ==
    IF x = <<>> THEN <<>>
    ELSE LET s == Head(x) - (IF y = <<>> THEN 0 ELSE Head(y)) - b
         IN  <<(s + LimbBase) % LimbBase>>
                \o BigSubB(Tail(x), IF y = <<>> THEN <<>> ELSE Tail(y),
                           IF s < 0 THEN 1 ELSE 0)

\* x - y, for x >= y
BigSub(x, y) == BigNorm(BigSubB(x, y, 0))

RECURSIVE BigMulLimb(_, _, _)
BigMulLimb(x, d, c) ==
    IF x = <<>> THEN (IF c = 0 THEN <<>> ELSE <<c>>)
    ELSE LET s == Head(x) * d + c
         IN  <<s % LimbBase>> \o BigMulLimb(Tail(x), d, s \div LimbBase)

RECURSIVE BigMul(_, _)
BigMul(x, y) ==
    IF x = <<>> \/ y = <<>> THEN <<>>
    ELSE BigAdd(BigNorm(BigMulLimb(x, Head(y), 0)), BigShift(BigMul(x, Tail(y))))

RECURSIVE BigLeqFrom(_, _, _)
BigLeqFrom(x, y, i) ==
    IF i = 0 THEN TRUE
    ELSE IF x[i] # y[i] THEN x[i] < y[i] ELSE BigLeqFrom(x, y, i - 1)

BigLeq(x, y) ==
    IF Len(x) # Len(y) THEN Len(x) < Len(y) ELSE BigLeqFrom(x, y, Len(x))

BigSq(x) == BigMul(x, x)

---------------------------------------------------------------------------
(* class AuditorFatura                                                     *)

FATOR_POTENCIA_MINIMO == 9200
LIMITE_ENERGIA_REATIVA == 1
MULTA_ULTRAPASSAGEM_DEMANDA == 3
FpUm == 10000

Max0(x) == IF x > 0 THEN x ELSE 0

\* floor(20000 * ativo / sqrt(s)): the largest m in lo..hi with
\* m^2 * s <= (20000 * ativo)^2
RECURSIVE RaizBusca(_, _, _, _)
RaizBusca(lo, hi, s, n) ==
    IF lo = hi THEN lo
    ELSE LET m == (lo + hi + 1) \div 2
         IN  IF BigLeq(BigMul(BigOf(m * m), s), n)
             THEN RaizBusca(m, hi, s, n)
             ELSE RaizBusca(lo, m - 1, s, n)

\* round(ativo / aparente, 4) in 1/10000: the nearest integer to
\* 10000 * ativo / sqrt(ativo^2 + reativo^2).  A tie would need
\* ativo / aparente rational with an odd numerator over 20000, which no
\* Pythagorean triple gives, so the rounding mode never matters.
\* Mutant: the quotient truncated to 4 decimals instead of rounded
Arredonda4Trunca(ativo, reativo) ==
    LET s == BigOf(ativo * ativo + reativo * reativo)
        n == BigSq(BigOf(2 * FpUm * ativo))
    IN  RaizBusca(0, 2 * FpUm, s, n) \div 2

Arredonda4(ativo, reativo) ==
    LET s == BigOf(ativo * ativo + reativo * reativo)
        n == BigSq(BigOf(2 * FpUm * ativo))
    IN  (RaizBusca(0, 2 * FpUm, s, n) + 1) \div 2

\* Mutant: the guard of l.59 dropped
calcular_sem_guarda(ativo, reativo) == Arredonda4(ativo, reativo)

calcular_fator_potencia(ativo, reativo) ==
    IF ativo = 0 THEN FpUm ELSE Arredonda4(ativo, reativo)

\* The real number coef * (tan(acos(f / 10000)) - tan(acos(0.92))).
Qc(coef, f) == [coef |-> coef, fp |-> f]

\* qc_necessaria = 0 (l.77): a zero coefficient
QcZero == Qc(0, FATOR_POTENCIA_MINIMO)

\* p >= q, for an integer p >= 0 and q = Qc(a, k) with k < 9200, as Python's
\* p >= qc_necessaria decides it (l.87).
\*   k = 0: math.tan(math.acos(0.0)) is the float 1.6e16, so q is 0.0 when
\*          a = 0 and above every catalog rating otherwise.
\*   k > 0: tan(acos(k/10^4)) = sqrt(10^8 - k^2) / k and
\*          tan(acos(0.92)) = sqrt(0.1536) / 0.92 = 4 sqrt(6) / 23, so
\*          p >= q  iff  23kp + 4ak sqrt(6) >= 23a sqrt(10^8 - k^2)
\*                  iff  A + B sqrt(6) >= C sqrt(D), all of A, B, C, D >= 0,
\*          which squaring twice decides on integers.
QcLeq(q, p) ==
    LET a == q.coef
        k == q.fp
    IN  IF k = 0 THEN a = 0
        ELSE LET A == BigOf(23 * k * p)
                 B == BigOf(4 * a * k)
                 C == BigOf(23 * a)
                 D == BigOf(FpUm * FpUm - k * k)
                 L == BigAdd(BigSq(A), BigMul(BigOf(6), BigSq(B)))
                 R == BigMul(BigSq(C), D)
             IN  \/ BigLeq(R, L)
                 \/ BigLeq(BigSq(BigSub(R, L)),
                           BigMul(BigOf(24), BigMul(BigSq(A), BigSq(B))))

potencias == <<5, 10, 15, 20, 25, 30, 35, 40, 50, 60, 75, 100, 150, 200>>

\* min(s, default=d) over a set of integers
MinDefault(s, d) == IF s = {} THEN d ELSE CHOOSE x \in s : \A y \in s : x <= y

\* Mutant: the fallback is the first rating instead of the last
qc_comercial_primeiro(qc_necessaria) ==
    MinDefault({potencias[i] : i \in {j \in 1..Len(potencias) :
                                         QcLeq(qc_necessaria, potencias[j])}},
               potencias[1])

\* min([p for p in potencias if p >= qc_necessaria], default=potencias[-1])
qc_comercial_de(qc_necessaria) ==
    MinDefault({potencias[i] : i \in {j \in 1..Len(potencias) :
                                         QcLeq(qc_necessaria, potencias[j])}},
               potencias[Len(potencias)])

\* f"{fatura['mes']:02d}/{fatura['ano']}": the month on two digits at least
Periodo(mes, ano) ==
    [mes |-> IF mes < 10 THEN <<0, mes>> ELSE <<mes \div 10, mes % 10>>,
     ano |-> ano]

\* (medida / contratada * 100) if contratada > 0 else 0, as a fraction; a
\* zero denominator is Python's ZeroDivisionError
\* Mutant: the division without its guard
utilizacao_sem_guarda(medida, contratada) ==
    [num |-> medida * 100, den |-> contratada]

utilizacao_de(medida, contratada) ==
    IF contratada > 0 THEN [num |-> medida * 100, den |-> contratada]
    ELSE [num |-> 0, den |-> 1]

\* Mutant: no penalty without active load
multa_reativo_sem_carga(fatura) ==
    IF fatura.consumo_ativo = 0 THEN 0
    ELSE Max0(2 * fatura.consumo_reativo
                - fatura.consumo_ativo * LIMITE_ENERGIA_REATIVA)
            * fatura.tarifa_energia

\* Mutant: the excess not clamped at 0
multa_reativo_sem_max(fatura) ==
    (2 * fatura.consumo_reativo - fatura.consumo_ativo * LIMITE_ENERGIA_REATIVA)
        * fatura.tarifa_energia

\* Mutant: the penalty derived from the power-factor comparison
multa_reativo_por_fp(fatura) ==
    IF fatura.fator_potencia >= FATOR_POTENCIA_MINIMO THEN 0
    ELSE Max0(2 * fatura.consumo_reativo
                - fatura.consumo_ativo * LIMITE_ENERGIA_REATIVA)
            * fatura.tarifa_energia

multa_reativo_de(fatura) ==
    LET limite_reativo == fatura.consumo_ativo * LIMITE_ENERGIA_REATIVA
        excedente_reativo == Max0(2 * fatura.consumo_reativo - limite_reativo)
    IN  excedente_reativo * fatura.tarifa_energia

\* Mutant: the overrun charged without the 1.5 surcharge
multa_ultrapassagem_sem_fator(fatura) ==
    Max0(fatura.demanda_medida - fatura.demanda_contratada)
        * 2 * fatura.tarifa_demanda

multa_ultrapassagem_de(fatura) ==
    LET ultrapassagem == Max0(fatura.demanda_medida - fatura.demanda_contratada)
    IN  ultrapassagem * MULTA_ULTRAPASSAGEM_DEMANDA * fatura.tarifa_demanda

banco_capacitores_de(fatura) ==
    IF fatura.fator_potencia < FATOR_POTENCIA_MINIMO
    THEN LET qc_necessaria == Qc(fatura.consumo_ativo, fatura.fator_potencia)
         IN  [recomendacao |-> "SIM",
              kvar_necessario |-> qc_necessaria,
              kvar_comercial |-> qc_comercial_de(qc_necessaria)]
    ELSE [recomendacao |-> "NAO", kvar_necessario |-> QcZero, kvar_comercial |-> 0]

analisar_fatura(fatura) ==
    [periodo |-> Periodo(fatura.mes, fatura.ano),
     fp |-> fatura.fator_potencia,
     fp_conforme |-> fatura.fator_potencia >= FATOR_POTENCIA_MINIMO,
     multa_reativo |-> multa_reativo_de(fatura),
     multa_ultrapassagem |-> multa_ultrapassagem_de(fatura),
     utilizacao_demanda |-> utilizacao_de(fatura.demanda_medida,
                                          fatura.demanda_contratada),
     banco_capacitores |-> banco_capacitores_de(fatura)]

---------------------------------------------------------------------------
(* main(): the form, the "Adicionar Fatura" handler and the results pass   *)

\* the dict analisar_fatura reads: the keys of the literal of l.236-243
Registro(f, fator) ==
    [mes |-> f.mes, ano |-> f.ano,
     consumo_ativo |-> f.ativo, consumo_reativo |-> f.reativo,
     demanda_contratada |-> f.dem_contratada, demanda_medida |-> f.dem_medida,
     fator_potencia |-> fator,
     tarifa_energia |-> f.tarifa_ener, tarifa_demanda |-> f.tarifa_dem,
     valor_total |-> 0]

RECURSIVE SomaMultaReativo(_)
SomaMultaReativo(as) ==
    IF as = <<>> THEN 0 ELSE Head(as).multa_reativo + SomaMultaReativo(Tail(as))

RECURSIVE SomaMultaUltrapassagem(_)
SomaMultaUltrapassagem(as) ==
    IF as = <<>> THEN 0
    ELSE Head(as).multa_ultrapassagem + SomaMultaUltrapassagem(Tail(as))

\* analises = [AuditorFatura.analisar_fatura(f) for f in faturas]
Analises(fs) == [i \in 1..Len(fs) |-> analisar_fatura(fs[i])]

\* Mutant: the demand total summed over the wrong column
ResumoColunaErrada(as) ==
    [economia_total |-> SomaMultaReativo(as) + SomaMultaUltrapassagem(as),
     total_multa_reativo |-> SomaMultaReativo(as),
     total_multa_ultrapassagem |-> SomaMultaReativo(as)]

\* l.254-256 and the dict 'resumo' of l.280-284
Resumo(as) ==
    LET total_multa_reativo == SomaMultaReativo(as)
        total_multa_ultrapassagem == SomaMultaUltrapassagem(as)
    IN  [economia_total |-> total_multa_reativo + total_multa_ultrapassagem,
         total_multa_reativo |-> total_multa_reativo,
         total_multa_ultrapassagem |-> total_multa_ultrapassagem]

\* "Exibição de Resultados": the block runs only for a non-empty list; an
\* empty list computes and shows nothing
ResultadosDe(fs) ==
    IF fs # <<>>
    THEN LET as == Analises(fs)
         IN  [analises |-> as, resumo |-> <<Resumo(as)>>]
    ELSE [analises |-> <<>>, resumo |-> <<>>]

\* Bounds and the values the inputs are drawn from
MaxPequeno == 1
MaxTarifa == 1
MaxFaturas == 3

Meses == {3, 11}
Anos == {2024}
Ativos == (0..MaxPequeno) \cup {1000}
Reativos == {0, 50, 426, 427, 600, 15000, 20001}
Contratadas == {0, 100}
Medidas == {0, 100, 120}
TarifasEnergia == {10 * i : i \in 0..MaxTarifa}
TarifasDemanda == {2000 * i : i \in 0..MaxTarifa}

\* the values each number_input widget may hold
Campos ==
    [mes |-> Meses, ano |-> Anos, ativo |-> Ativos, reativo |-> Reativos,
     dem_contratada |-> Contratadas, dem_medida |-> Medidas,
     tarifa_ener |-> TarifasEnergia, tarifa_dem |-> TarifasDemanda]

Forms ==
    [mes : Campos.mes, ano : Campos.ano,
     ativo : Campos.ativo, reativo : Campos.reativo,
     dem_contratada : Campos.dem_contratada, dem_medida : Campos.dem_medida,
     tarifa_ener : Campos.tarifa_ener, tarifa_dem : Campos.tarifa_dem]

\* the widgets' defaults: the current month and year, 0.0 elsewhere
FormInicial ==
    {f \in Forms : /\ f.ativo = 0 /\ f.reativo = 0
                   /\ f.dem_contratada = 0 /\ f.dem_medida = 0
                   /\ f.tarifa_ener = 0 /\ f.tarifa_dem = 0}

---------------------------------------------------------------------------
(* Spec: the Streamlit session.  Every interaction reruns main().          *)

Init ==
    /\ form \in FormInicial
    /\ fp = <<>>
    /\ faturas = <<>>
    /\ botao = FALSE
    /\ erro = ""
    /\ analises = <<>>
    /\ resumo = <<>>
    /\ pc = "fim"

\* The user changes one widget: a rerun in which st.button returns False,
\* so l.235-245 are skipped and the local fp is never bound.
Editar ==
    \E c \in DOMAIN Campos : \E v \in Campos[c] :
        /\ v # form[c]
        /\ form' = [form EXCEPT ![c] = v]
        /\ botao' = FALSE
        /\ erro' = ""
        /\ LET r == ResultadosDe(faturas)
           IN  analises' = r.analises /\ resumo' = r.resumo
        /\ pc' = "fim"
        /\ fp' = <<>>
        /\ UNCHANGED faturas

\* The user clicks "Adicionar Fatura": l.235 computes fp, then the dict
\* literal reads tarifa_energia (l.241), a name main() never binds (the
\* widgets are tarifa_ener and tarifa_dem): NameError ends the run before
\* the append of l.244 and before the results pass.
Adicionar ==
    /\ botao' = TRUE
    /\ fp' = <<calcular_fator_potencia(form.ativo, form.reativo)>>
    /\ erro' = "NameError"
    /\ analises' = <<>>
    /\ resumo' = <<>>
    /\ pc' = "excecao"
    /\ UNCHANGED <<form, faturas>>

Next == Editar \/ Adicionar

Spec == Init /\ [][Next]_vars

---------------------------------------------------------------------------
(* SpecAnalise: calcular_fator_potencia, then analisar_fatura, applied to  *)
(* inputs drawn from Forms.                                                *)

InitAnalise ==
    /\ form \in Forms
    /\ fp = <<>>
    /\ faturas = <<>>
    /\ botao = FALSE
    /\ erro = ""
    /\ analises = <<>>
    /\ resumo = <<>>
    /\ pc = "entrada"

Calcular ==
    /\ pc = "entrada"
    /\ fp' = <<calcular_fator_potencia(form.ativo, form.reativo)>>
    /\ pc' = "fp"
    /\ UNCHANGED <<form, faturas, botao, erro, analises, resumo>>

Analisar ==
    /\ pc = "fp"
    /\ LET fatura == Registro(form, fp[1])
       IN  faturas' = <<fatura>> /\ analises' = <<analisar_fatura(fatura)>>
    /\ pc' = "analise"
    /\ UNCHANGED <<form, fp, botao, erro, resumo>>

NextAnalise == Calcular \/ Analisar

SpecAnalise == InitAnalise /\ [][NextAnalise]_vars

---------------------------------------------------------------------------
(* SpecResumo: the results pass applied to a list of records drawn from    *)
(* Registros, whose fator_potencia is drawn independently of the energies. *)

\* <<mes, ano, ativo, reativo, contratada, medida, tarifa_ener, tarifa_dem>>
Leituras == {<<3, 2024, 0, 50, 0, 0, 5, 0>>,
             <<11, 2025, 1000, 600, 100, 120, 10, 2000>>}
Fatores == {8575, 9200, 10000}

Registros ==
    {[mes |-> l[1], ano |-> l[2],
      consumo_ativo |-> l[3], consumo_reativo |-> l[4],
      demanda_contratada |-> l[5], demanda_medida |-> l[6],
      fator_potencia |-> k,
      tarifa_energia |-> l[7], tarifa_demanda |-> l[8],
      valor_total |-> 0] : l \in Leituras, k \in Fatores}

Listas == UNION {[1..n -> Registros] : n \in 0..MaxFaturas}

InitResumo ==
    /\ form = CHOOSE f \in FormInicial : TRUE
    /\ fp = <<>>
    /\ faturas \in Listas
    /\ botao = FALSE
    /\ erro = ""
    /\ analises = <<>>
    /\ resumo = <<>>
    /\ pc = "inicio"

ExibirResultados ==
    /\ pc = "inicio"
    /\ LET r == ResultadosDe(faturas)
       IN  analises' = r.analises /\ resumo' = r.resumo
    /\ pc' = "fim"
    /\ UNCHANGED <<form, fp, faturas, botao, erro>>

NextResumo == ExibirResultados

SpecResumo == InitResumo /\ [][NextResumo]_vars

---------------------------------------------------------------------------
(* Properties                                                              *)

Analisada == pc = "analise"
FaturaAnalisada == faturas[1]
AnaliseFeita == analises[1]
Catalogo == {5, 10, 15, 20, 25, 30, 35, 40, 50, 60, 75, 100, 150, 200}

\* C1: the recommendation is NAO, with kvar_necessario = 0 and
\* kvar_comercial = 0, exactly when fator_potencia >= 0.92; otherwise it is
\* SIM, kvar_comercial is the smallest catalog rating >= kvar_necessario,
\* and it is 200 when kvar_necessario exceeds 200.
C1_Recomendacao ==
    Analisada =>
        LET f == FaturaAnalisada
            b == AnaliseFeita.banco_capacitores
            bastam == {p \in Catalogo : QcLeq(b.kvar_necessario, p)}
        IN  /\ (b.recomendacao = "NAO") <=> (f.fator_potencia >= 9200)
            /\ b.recomendacao = "NAO" =>
                  b.kvar_necessario.coef = 0 /\ b.kvar_comercial = 0
            /\ b.recomendacao # "NAO" =>
                  /\ b.recomendacao = "SIM"
                  /\ b.kvar_necessario
                        = Qc(f.consumo_ativo, f.fator_potencia)
                  /\ bastam # {} =>
                        /\ b.kvar_comercial \in bastam
                        /\ \A p \in bastam : b.kvar_comercial <= p
                  /\ ~QcLeq(b.kvar_necessario, 200) => b.kvar_comercial = 200

\* C1 witnesses: 1000 kWh with 600 kVArh (fp 0.8575) needs about 174 kvar
\* and gets 200
C1_Witness ==
    /\ Analisada
    /\ FaturaAnalisada.consumo_ativo = 1000
    /\ FaturaAnalisada.fator_potencia = 8575
    /\ AnaliseFeita.banco_capacitores.recomendacao = "SIM"
    /\ ~QcLeq(AnaliseFeita.banco_capacitores.kvar_necessario, 150)
    /\ AnaliseFeita.banco_capacitores.kvar_comercial = 200

\* C2 as claimed: for ativo > 0 the value calcular_fator_potencia returns is
\* in (0, 1].
C2_Original ==
    (pc # "entrada" /\ form.ativo > 0) => (fp[1] > 0 /\ fp[1] <= 10000)

\* C2 as amended: for ativo > 0 the value is in [0, 1]; the rounding to 4
\* decimals makes it 0.0 exactly when ativo / aparente < 0.00005, which for
\* whole energies is reativo >= 20000 * ativo.
C2_Amended ==
    (pc # "entrada" /\ form.ativo > 0) =>
        /\ fp[1] >= 0 /\ fp[1] <= 10000
        /\ (fp[1] = 0) <=> (form.reativo >= 20000 * form.ativo)

C2_Witness == pc # "entrada" /\ form.ativo > 0 /\ fp = <<0>>

\* C3 as claimed: a record with consumo_ativo = 0 has multa_reativo = 0
\* whatever its reactive energy and tariff.
C3_Original ==
    (Analisada /\ FaturaAnalisada.consumo_ativo = 0) =>
        AnaliseFeita.multa_reativo = 0

\* C3 as amended: a record with consumo_ativo = 0 is compliant
\* (fp = 1.0), but its whole reactive energy is excess: multa_reativo =
\* consumo_reativo * tarifa_energia (here in half centavos), which is 0 only
\* when consumo_reativo = 0 or tarifa_energia = 0.
C3_Amended ==
    (Analisada /\ FaturaAnalisada.consumo_ativo = 0) =>
        LET f == FaturaAnalisada
        IN  /\ AnaliseFeita.fp_conforme
            /\ AnaliseFeita.multa_reativo
                  = 2 * f.consumo_reativo * f.tarifa_energia
            /\ (AnaliseFeita.multa_reativo = 0)
                  <=> (f.consumo_reativo = 0 \/ f.tarifa_energia = 0)

C3_Witness ==
    /\ Analisada
    /\ FaturaAnalisada.consumo_ativo = 0
    /\ FaturaAnalisada.consumo_reativo = 50
    /\ AnaliseFeita.multa_reativo = 1000

\* C4: with ativo = 0 calcular_fator_potencia returns exactly 1.0 whatever
\* reativo is, and the analysis of the record carrying it reports
\* fp_conforme and no capacitor bank.
C4_SemCarga ==
    /\ (pc # "entrada" /\ form.ativo = 0) => fp = <<10000>>
    /\ (Analisada /\ FaturaAnalisada.consumo_ativo = 0) =>
          /\ FaturaAnalisada.fator_potencia = 10000
          /\ AnaliseFeita.fp = 10000
          /\ AnaliseFeita.fp_conforme
          /\ AnaliseFeita.banco_capacitores.recomendacao = "NAO"

C4_Witness ==
    /\ Analisada
    /\ FaturaAnalisada.consumo_ativo = 0
    /\ FaturaAnalisada.consumo_reativo = 50
    /\ AnaliseFeita.fp = 10000
    /\ AnaliseFeita.fp_conforme

\* C5: multa_reativo = max(0, reativo - 0.5 * ativo) * tarifa_energia
\* (in half centavos: max(0, 2 * reativo - ativo) * tarifa), so it is 0
\* whenever reativo <= 0.5 * ativo.
C5_MultaReativo ==
    Analisada =>
        LET f == FaturaAnalisada
        IN  AnaliseFeita.multa_reativo
              = IF 2 * f.consumo_reativo <= f.consumo_ativo THEN 0
                ELSE (2 * f.consumo_reativo - f.consumo_ativo)
                        * f.tarifa_energia

\* C5 witnesses: 1000 kWh, 600 kVArh at 0.10 gives 10.00; 426 kVArh gives 0
C5_Witness ==
    /\ Analisada
    /\ FaturaAnalisada.consumo_ativo = 1000
    /\ FaturaAnalisada.consumo_reativo = 600
    /\ FaturaAnalisada.tarifa_energia = 10
    /\ AnaliseFeita.multa_reativo = 2000

\* C6: multa_ultrapassagem = max(0, medida - contratada) * 1.5 *
\* tarifa_demanda (in half centavos: * 3 * tarifa), so it is 0 whenever
\* medida <= contratada; 120 kW measured against 100 kW at 20.00 gives 600.00.
C6_MultaUltrapassagem ==
    Analisada =>
        LET f == FaturaAnalisada
        IN  /\ AnaliseFeita.multa_ultrapassagem
                  = IF f.demanda_medida <= f.demanda_contratada THEN 0
                    ELSE (f.demanda_medida - f.demanda_contratada)
                            * 3 * f.tarifa_demanda
            /\ (/\ f.demanda_medida = 120 /\ f.demanda_contratada = 100
                /\ f.tarifa_demanda = 2000)
                  => AnaliseFeita.multa_ultrapassagem = 120000

C6_Witness ==
    /\ Analisada
    /\ FaturaAnalisada.demanda_medida = 120
    /\ FaturaAnalisada.demanda_contratada = 100
    /\ FaturaAnalisada.tarifa_demanda = 2000
    /\ AnaliseFeita.multa_ultrapassagem = 120000

\* C8: the utilisation never divides by zero; it is 0 when
\* demanda_contratada = 0 and medida / contratada * 100 otherwise.
C8_Utilizacao ==
    Analisada =>
        LET f == FaturaAnalisada
            u == AnaliseFeita.utilizacao_demanda
        IN  /\ u.den # 0
            /\ f.demanda_contratada = 0 => u.num = 0
            /\ f.demanda_contratada > 0 =>
                  u.num * f.demanda_contratada = f.demanda_medida * 100 * u.den

C8_Witness ==
    /\ Analisada
    /\ FaturaAnalisada.demanda_contratada = 0
    /\ FaturaAnalisada.demanda_medida = 120
    /\ AnaliseFeita.utilizacao_demanda.num = 0

RECURSIVE SomaReativoAte(_)
SomaReativoAte(n) ==
    IF n = 0 THEN 0 ELSE SomaReativoAte(n - 1) + analises[n].multa_reativo

RECURSIVE SomaUltrapassagemAte(_)
SomaUltrapassagemAte(n) ==
    IF n = 0 THEN 0
    ELSE SomaUltrapassagemAte(n - 1) + analises[n].multa_ultrapassagem

PassadaCompleta ==
    /\ Len(analises) = Len(faturas)
    /\ \A i \in 1..Len(faturas) :
          /\ analises[i] = analisar_fatura(faturas[i])
          /\ analises[i].periodo.ano = faturas[i].ano
    /\ Len(resumo) = 1
    /\ resumo[1].total_multa_reativo = SomaReativoAte(Len(faturas))
    /\ resumo[1].total_multa_ultrapassagem = SomaUltrapassagemAte(Len(faturas))
    /\ resumo[1].economia_total
          = resumo[1].total_multa_reativo + resumo[1].total_multa_ultrapassagem

\* C7 as claimed: a results pass yields one analysis per stored invoice, in
\* order, and the three totals: the two sums and their sum, all 0 for an
\* empty list.
C7_Original ==
    pc = "fim" =>
        /\ PassadaCompleta
        /\ faturas = <<>> =>
              /\ resumo[1].total_multa_reativo = 0
              /\ resumo[1].total_multa_ultrapassagem = 0
              /\ resumo[1].economia_total = 0

\* C7 as amended: for a non-empty list a results pass yields one analysis
\* per stored invoice, in order, and the three totals, the two sums and
\* their sum; for an empty list the pass is skipped and yields no analysis
\* and no totals.
C7_Amended ==
    pc = "fim" =>
        IF faturas = <<>> THEN analises = <<>> /\ resumo = <<>>
        ELSE PassadaCompleta

\* reactive 10.00 + 2.50 + 10.00, demand 600.00 + 0 + 600.00
C7_Witness ==
    /\ pc = "fim"
    /\ Len(faturas) = 3
    /\ Len(analises) = 3
    /\ analises[1].multa_reativo = 2000
    /\ analises[2].multa_reativo = 500
    /\ analises[3].multa_ultrapassagem = 120000
    /\ resumo = <<[economia_total |-> 244500, total_multa_reativo |-> 4500,
                   total_multa_ultrapassagem |-> 240000]>>

\* C9: a click on "Adicionar Fatura" appends exactly one record, carrying
\* the entered values and the fator_potencia computed from them, and leaves
\* the stored records as they were.
C9_Original ==
    [][botao' =>
         faturas' = Append(faturas,
                           Registro(form, calcular_fator_potencia(form.ativo,
                                                                  form.reativo)))
      ]_vars

MesmasEnergias(f, g) ==
    /\ f.consumo_ativo = g.consumo_ativo
    /\ f.consumo_reativo = g.consumo_reativo
    /\ f.tarifa_energia = g.tarifa_energia

TudoMaisDifere(f, g) ==
    \A c \in DOMAIN f \ {"fator_potencia", "valor_total"} : f[c] # g[c]

\* C10: the reactive penalty does not depend on fator_potencia, and
\* fp_conforme (= fator_potencia >= 0.92) and the capacitor recommendation
\* depend on nothing else.
C10_Desacoplados ==
    pc = "fim" =>
        \A i, j \in 1..Len(analises) :
            /\ MesmasEnergias(faturas[i], faturas[j]) =>
                  analises[i].multa_reativo = analises[j].multa_reativo
            /\ analises[i].fp_conforme = (faturas[i].fator_potencia >= 9200)
            /\ faturas[i].fator_potencia = faturas[j].fator_potencia =>
                  /\ analises[i].fp_conforme = analises[j].fp_conforme
                  /\ analises[i].banco_capacitores.recomendacao
                        = analises[j].banco_capacitores.recomendacao

C10_Witness ==
    /\ pc = "fim"
    /\ Len(analises) = 3
    /\ MesmasEnergias(faturas[1], faturas[2])
    /\ faturas[1].fator_potencia # faturas[2].fator_potencia
    /\ analises[1].fp_conforme # analises[2].fp_conforme
    /\ analises[1].multa_reativo = 2000
    /\ analises[2].multa_reativo = 2000
    /\ faturas[1].fator_potencia = faturas[3].fator_potencia
    /\ TudoMaisDifere(faturas[1], faturas[3])
    /\ analises[1].fp_conforme = analises[3].fp_conforme

=============================================================================
